---- MODULE Spec2Model ----
(***************************************************************************)
(* Model of app.js: an Express 4 application with four routes over one    *)
(* MongoDB collection ("notes" in database "tutor").                      *)
(*                                                                         *)
(* The process state is the module-level handle `notes`, the position of  *)
(* the connection IIFE, and the position of every request handler that is *)
(* in flight.  The store is the collection, changed atomically by one     *)
(* store operation at a time.  A handler runs in three steps: the part of *)
(* the async function up to its await (which issues the store operation), *)
(* the store carrying the operation out, and the continuation that sends  *)
(* the response.                                                           *)
(*                                                                         *)
(* Scaling: an ObjectId is 12 bytes, written as 24 hex digits; here it is *)
(* 1 byte, written as 2 hex digits.  Strings are sequences of one-letter  *)
(* strings.                                                                *)
(***************************************************************************)
EXTENDS Integers, Sequences, FiniteSets, TLC

\* Bounds of the model.
MaxInFlight == 1     \* requests whose handlers are in flight at once
MaxOid == 1          \* ObjectIds the driver generates in one run

VARIABLES
    notes,          \* the handle: "undefined" or "collection"
    connState,      \* the connection IIFE: "init", "connecting", "connected", "failed"
    attempts,       \* number of client.connect() calls made by the process
    storeUp,        \* whether the store at mongodb://localhost:27017 is reachable
    proc,           \* "running" or "crashed"
    rejectionMode,  \* what Node does with an unhandled rejection: "throw" or "warn"
    coll,           \* the collection: sequence of documents in insertion order
    nextOid,        \* counter of the driver's ObjectId generator
    deletedIds,     \* history: the _id values of the documents deleted so far
    reqs,           \* slot -> the request in it and its handler's position
    log             \* history: the write operations the store has carried out,
                    \* in order (kept only where each slot serves one request)

vars == <<notes, connState, attempts, storeUp, proc, rejectionMode, coll,
          nextOid, deletedIds, reqs, log>>

Slots == 1..MaxInFlight

----------------------------------------------------------------------------
\* Values and documents

Str(s) == [t |-> "str", v |-> s]
Oid(h) == [t |-> "oid", v |-> h]

EmptyDoc == [f \in {} |-> Str(<<>>)]

HexDigits == <<"0","1","2","3","4","5","6","7","8","9","a","b","c","d","e","f">>
HexUpper  == <<"0","1","2","3","4","5","6","7","8","9","A","B","C","D","E","F">>

\* UTF-8 code of the characters used in the requests of the model.
CharCode(c) ==
    CASE c = "0" -> 48 [] c = "1" -> 49 [] c = "2" -> 50 [] c = "3" -> 51
      [] c = "a" -> 97 [] c = "b" -> 98 [] c = "A" -> 65 [] c = "B" -> 66
      [] c = "z" -> 122

\* One byte as two hex digits.
toHexString(n) == <<HexDigits[(n \div 16) + 1], HexDigits[(n % 16) + 1]>>

IsHexChar(c) == \E i \in 1..16 : HexDigits[i] = c \/ HexUpper[i] = c
HexLower(c) == HexDigits[CHOOSE i \in 1..16 : HexDigits[i] = c \/ HexUpper[i] = c]

\* new ObjectId(string) of bson 5: a string of 12 bytes is taken as the bytes,
\* a string of 24 hex digits is decoded, anything else throws BSONError.
\* (Scaled: 1 byte, 2 hex digits.)
ObjectId(s) ==
    IF Len(s) = 1
      THEN [ok |-> TRUE, hex |-> toHexString(CharCode(s[1]))]
      ELSE IF Len(s) = 2 /\ \A i \in 1..2 : IsHexChar(s[i])
        THEN [ok |-> TRUE, hex |-> [i \in 1..2 |-> HexLower(s[i])]]
        ELSE [ok |-> FALSE, hex |-> <<>>]

----------------------------------------------------------------------------
\* Requests the clients send

A == Str(<<"A">>)
B == Str(<<"B">>)

\* JSON request bodies, as express.json() hands them over in req.body.
Bodies ==
    { ("title" :> A) @@ ("content" :> B),
      ("content" :> A),
      ("_id" :> A) @@ ("title" :> B) }

\* The :id path segment: the hex form of every ObjectId the driver can
\* generate, a 1-byte string (well-formed, never generated) and a string
\* that is neither.
PathIds == { toHexString(n) : n \in 1..MaxOid } \cup { <<"a">>, <<"z", "z">> }

\* Query strings, as sequences of key=value pairs; a key may carry one
\* bracketed sub-key: title[$ne]=A has the path <<"title", "$ne">>.
Queries ==
    { <<>>,
      << [path |-> <<"title">>, val |-> <<"A">>],
         [path |-> <<"content">>, val |-> <<"B">>] >>,
      << [path |-> <<"title", "$ne">>, val |-> <<"A">>] >> }

\* req.query: Express 4 parses the query string with qs ("extended" query
\* parser), which turns key[sub]=v into the nested object {key: {sub: v}}.
ParseQuery(raw) ==
    [ k \in { raw[i].path[1] : i \in DOMAIN raw } |->
        LET p == raw[CHOOSE i \in DOMAIN raw : raw[i].path[1] = k]
        IN  IF Len(p.path) = 1
              THEN [t |-> "str", op |-> "", v |-> p.val]
              ELSE [t |-> "obj", op |-> p.path[2], v |-> p.val] ]

----------------------------------------------------------------------------
\* The store: one operation at a time on the collection

NoResult == [ok |-> FALSE, n |-> 0, items |-> <<>>]
Failed == [ok |-> FALSE, n |-> 0, items |-> <<>>]
Done(n, items) == [ok |-> TRUE, n |-> n, items |-> items]

Ids(c) == { c[i]["_id"] : i \in DOMAIN c }

\* Whether a document satisfies a filter document.  A plain value is an
\* equality condition; an object value whose key is an operator is that
\* operator's condition ($ne, the one the requests of the model use, also
\* matches a document without the field); any other object value is compared
\* with the field as an embedded document, which no flat document equals.
Matches(doc, filter) ==
    \A k \in DOMAIN filter :
        LET eq == k \in DOMAIN doc /\ doc[k] = Str(filter[k].v)
        IN  IF filter[k].t = "str" THEN eq
            ELSE IF filter[k].op = "$ne" THEN ~eq
            ELSE FALSE

\* notes.find(filter) followed by cursor.toArray()
find(c, filter) ==
    [c |-> c, result |-> Done(0, SelectSeq(c, LAMBDA d : Matches(d, filter)))]

\* Mutant: only the identifier is stored, the submitted fields are lost.
insertOne_DropsFields(c, doc) ==
    IF doc["_id"] \in Ids(c)
      THEN [c |-> c, result |-> Failed]
      ELSE [c |-> Append(c, "_id" :> doc["_id"]), result |-> Done(1, <<>>)]

\* notes.insertOne(doc): the unique index on _id rejects a duplicate key.
insertOne(c, doc) ==
    IF doc["_id"] \in Ids(c)
      THEN [c |-> c, result |-> Failed]
      ELSE [c |-> Append(c, doc), result |-> Done(1, <<>>)]

\* Position of the first document with this _id, 0 if there is none.
IndexOf(c, id) ==
    IF id \in Ids(c) THEN CHOOSE i \in DOMAIN c : c[i]["_id"] = id /\
                              \A j \in 1..(i - 1) : c[j]["_id"] # id
                     ELSE 0

\* Mutant: the last document is removed, whichever one matched.
RemoveAt_Last(c, i) == SubSeq(c, 1, Len(c) - 1)

RemoveAt(c, i) == [j \in 1..(Len(c) - 1) |-> IF j < i THEN c[j] ELSE c[j + 1]]

\* Mutant: the filter is not applied (deleteOne({})): the first document
\* of the collection is deleted.
deleteOne_NoFilter(c, id) ==
    IF c = <<>> THEN [c |-> c, result |-> Done(0, <<>>)]
                ELSE [c |-> Tail(c), result |-> Done(1, <<>>)]

\* notes.deleteOne({_id: id}); n is deletedCount.
deleteOne(c, id) ==
    LET i == IndexOf(c, id)
    IN  IF i = 0 THEN [c |-> c, result |-> Done(0, <<>>)]
                 ELSE [c |-> RemoveAt(c, i), result |-> Done(1, <<>>)]

\* Mutant: the document is replaced by the mapping (replaceOne instead of
\* $set): the fields the mapping does not name are lost.
SetFields_Replace(doc, m) ==
    [f \in {"_id"} \cup DOMAIN m |-> IF f \in DOMAIN m THEN m[f] ELSE doc[f]]

\* $set: the named fields are written, the others kept.
SetFields(doc, m) ==
    [f \in DOMAIN doc \cup DOMAIN m |-> IF f \in DOMAIN m THEN m[f] ELSE doc[f]]

\* Mutant: updateOne with {upsert: true}: an unmatched id inserts a document.
updateOne_Upsert(c, id, m) ==
    IF id \in Ids(c)
      THEN [c |-> [c EXCEPT ![IndexOf(c, id)] = SetFields(@, m)], result |-> Done(1, <<>>)]
      ELSE [c |-> Append(c, SetFields("_id" :> id, m)), result |-> Done(0, <<>>)]

\* notes.updateOne({_id: id}, {$set: m}); n is matchedCount.  The store
\* refuses an update that would change _id, which is immutable; an empty
\* $set is a no-op (MongoDB 5.0 and later).
updateOne(c, id, m) ==
    LET i == IndexOf(c, id)
    IN  IF i = 0 THEN [c |-> c, result |-> Done(0, <<>>)]
        ELSE IF "_id" \in DOMAIN m /\ m["_id"] # c[i]["_id"]
          THEN [c |-> c, result |-> Failed]
          ELSE [c |-> [c EXCEPT ![i] = SetFields(c[i], m)], result |-> Done(1, <<>>)]

----------------------------------------------------------------------------
\* Requests in flight

NoResp == [kind |-> "none", text |-> "", ok |-> FALSE, items |-> <<>>]
Text(t) == [kind |-> "text", text |-> t, ok |-> FALSE, items |-> <<>>]
Json(b) == [kind |-> "json", text |-> "", ok |-> b, items |-> <<>>]
Items(l) == [kind |-> "items", text |-> "", ok |-> FALSE, items |-> l]

Idle ==
    [pc |-> "idle", route |-> "", id |-> <<>>, query |-> <<>>, body |-> EmptyDoc,
     result |-> NoResult, status |-> 0, resp |-> NoResp]

Request(route, id, query, body) ==
    [pc |-> "pending", route |-> route, id |-> id, query |-> query, body |-> body,
     result |-> NoResult, status |-> 0, resp |-> NoResp]

\* res.status(status).send(resp): the handler is done, and nothing of the
\* request but its response is kept.
Send(r, status, resp) == [Idle EXCEPT !.pc = "done", !.route = r.route,
                                      !.status = status, !.resp = resp]

\* A request is taken into the lowest slot that holds no handler in flight.
Free(s) == reqs[s].pc \in {"idle", "done"}
Accepting(s) ==
    /\ proc = "running"
    /\ connState # "init"
    /\ Free(s)
    /\ \A t \in 1..(s - 1) : ~Free(t)

\* The promise of an async handler rejects and Express 4 does not look at
\* it: the request is never answered, and Node (depending on its version
\* and --unhandled-rejections) ends the process or only warns.
UnhandledRejection(s, r) ==
    /\ reqs' = [reqs EXCEPT ![s] = [Idle EXCEPT !.pc = "hung", !.route = r.route]]
    /\ proc' = IF rejectionMode = "throw" THEN "crashed" ELSE proc

----------------------------------------------------------------------------
\* The connection IIFE

StartConnect ==
    /\ proc = "running"
    /\ connState = "init"
    /\ connState' = "connecting"
    /\ attempts' = attempts + 1
    /\ UNCHANGED <<notes, storeUp, proc, rejectionMode, coll, nextOid, deletedIds, reqs>>

ConnectOk ==
    /\ proc = "running"
    /\ connState = "connecting"
    /\ storeUp
    /\ connState' = "connected"
    /\ notes' = "collection"
    /\ UNCHANGED <<attempts, storeUp, proc, rejectionMode, coll, nextOid, deletedIds, reqs>>

\* Mutant: the catch block calls client.connect() again.
ConnectFail_Retries ==
    /\ proc = "running"
    /\ connState = "connecting"
    /\ ~storeUp
    /\ attempts' = attempts + 1
    /\ UNCHANGED <<notes, connState, storeUp, proc, rejectionMode, coll, nextOid,
                   deletedIds, reqs>>

ConnectFail ==
    /\ proc = "running"
    /\ connState = "connecting"
    /\ ~storeUp
    /\ connState' = "failed"
    /\ UNCHANGED <<notes, attempts, storeUp, proc, rejectionMode, coll, nextOid,
                   deletedIds, reqs>>

\* The store becomes unreachable, or reachable again.
StoreGoesDown ==
    /\ proc = "running"
    /\ storeUp
    /\ storeUp' = FALSE
    /\ UNCHANGED <<notes, connState, attempts, proc, rejectionMode, coll, nextOid,
                   deletedIds, reqs>>

StoreComesUp ==
    /\ proc = "running"
    /\ ~storeUp
    /\ storeUp' = TRUE
    /\ UNCHANGED <<notes, connState, attempts, proc, rejectionMode, coll, nextOid,
                   deletedIds, reqs>>

----------------------------------------------------------------------------
\* The route handlers, up to their await

AppGetNotes(s, q) ==
    /\ Accepting(s)
    /\ reqs' = [reqs EXCEPT ![s] =
                  IF notes = "undefined"
                    THEN Send(Request("GET", <<>>, q, EmptyDoc), 500,
                              Text("An error occurred while retrieving notes."))
                    ELSE Request("GET", <<>>, q, EmptyDoc)]
    /\ UNCHANGED <<notes, connState, attempts, storeUp, proc, rejectionMode, coll,
                   nextOid, deletedIds>>

\* insertOne gives the document an _id before it is sent, unless it has one.
AppPostNotes(s, b) ==
    /\ Accepting(s)
    /\ IF notes = "undefined"
         THEN /\ reqs' = [reqs EXCEPT ![s] =
                            Send(Request("POST", <<>>, <<>>, b), 500,
                                 Text("An error occurred while adding a note."))]
              /\ UNCHANGED nextOid
         ELSE IF "_id" \in DOMAIN b
           THEN /\ reqs' = [reqs EXCEPT ![s] = Request("POST", <<>>, <<>>, b)]
                /\ UNCHANGED nextOid
           ELSE /\ nextOid <= MaxOid
                /\ reqs' = [reqs EXCEPT ![s] =
                              Request("POST", <<>>, <<>>,
                                      b @@ ("_id" :> Oid(toHexString(nextOid))))]
                /\ nextOid' = nextOid + 1
    /\ UNCHANGED <<notes, connState, attempts, storeUp, proc, rejectionMode, coll,
                   deletedIds>>

AppDeleteNote(s, id) ==
    /\ Accepting(s)
    /\ IF ~ObjectId(id).ok \/ notes = "undefined"
         THEN UnhandledRejection(s, Request("DELETE", id, <<>>, EmptyDoc))
         ELSE /\ reqs' = [reqs EXCEPT ![s] = Request("DELETE", id, <<>>, EmptyDoc)]
              /\ UNCHANGED proc
    /\ UNCHANGED <<notes, connState, attempts, storeUp, rejectionMode, coll, nextOid,
                   deletedIds>>

\* Mutant: an id that cannot be parsed is answered like an id that matches
\* no document.
AppPutNote_NotFoundOnBadId(s, id, b) ==
    /\ Accepting(s)
    /\ reqs' = [reqs EXCEPT ![s] =
                  IF ~ObjectId(id).ok
                    THEN Send(Request("PUT", id, <<>>, b), 404, Text("Note not found."))
                    ELSE IF notes = "undefined"
                      THEN Send(Request("PUT", id, <<>>, b), 500,
                                Text("An error occurred while updating the note."))
                      ELSE Request("PUT", id, <<>>, b)]
    /\ UNCHANGED <<notes, connState, attempts, storeUp, proc, rejectionMode, coll,
                   nextOid, deletedIds>>

AppPutNote(s, id, b) ==
    /\ Accepting(s)
    /\ reqs' = [reqs EXCEPT ![s] =
                  IF ~ObjectId(id).ok \/ notes = "undefined"
                    THEN Send(Request("PUT", id, <<>>, b), 500,
                              Text("An error occurred while updating the note."))
                    ELSE Request("PUT", id, <<>>, b)]
    /\ UNCHANGED <<notes, connState, attempts, storeUp, proc, rejectionMode, coll,
                   nextOid, deletedIds>>

----------------------------------------------------------------------------
\* The store carries out the operation a handler is waiting for

\* The awaited promise settles.  The code after the await reads the result
\* and never req again, so the request's inputs are dropped here.
Settle(s, result) ==
    reqs' = [reqs EXCEPT ![s] = [Idle EXCEPT !.pc = "settled", !.route = reqs[s].route,
                                             !.result = result]]

\* The store cannot be reached: the driver's promise rejects.
StoreFail(s) ==
    /\ reqs[s].pc = "pending"
    /\ ~storeUp
    /\ Settle(s, Failed)
    /\ UNCHANGED <<notes, connState, attempts, storeUp, proc, rejectionMode, coll,
                   nextOid, deletedIds>>

StoreFind(s) ==
    /\ reqs[s].pc = "pending" /\ reqs[s].route = "GET"
    /\ storeUp
    /\ Settle(s, find(coll, ParseQuery(reqs[s].query)).result)
    /\ UNCHANGED <<notes, connState, attempts, storeUp, proc, rejectionMode, coll,
                   nextOid, deletedIds>>

StoreInsert(s) ==
    /\ reqs[s].pc = "pending" /\ reqs[s].route = "POST"
    /\ storeUp
    /\ LET out == insertOne(coll, reqs[s].body)
       IN  coll' = out.c /\ Settle(s, out.result)
    /\ UNCHANGED <<notes, connState, attempts, storeUp, proc, rejectionMode, nextOid,
                   deletedIds>>

StoreDelete(s) ==
    /\ reqs[s].pc = "pending" /\ reqs[s].route = "DELETE"
    /\ storeUp
    /\ LET id == Oid(ObjectId(reqs[s].id).hex)
           out == deleteOne(coll, id)
       IN  /\ coll' = out.c
           /\ Settle(s, out.result)
           /\ deletedIds' = IF out.result.n = 1 THEN deletedIds \cup {id} ELSE deletedIds
    /\ UNCHANGED <<notes, connState, attempts, storeUp, proc, rejectionMode, nextOid>>

\* Mutant: the handler writes the whole document built from its own mapping
\* (replaceOne): the fields a concurrent update has set are lost.
StoreUpdate_WholeDocument(s) ==
    /\ reqs[s].pc = "pending" /\ reqs[s].route = "PUT"
    /\ storeUp
    /\ LET id == Oid(ObjectId(reqs[s].id).hex)
           i == IndexOf(coll, id)
       IN  IF i = 0
             THEN coll' = coll /\ Settle(s, Done(0, <<>>))
             ELSE /\ coll' = [coll EXCEPT ![i] = ("_id" :> id) @@ reqs[s].body]
                  /\ Settle(s, Done(1, <<>>))
    /\ UNCHANGED <<notes, connState, attempts, storeUp, proc, rejectionMode, nextOid,
                   deletedIds>>

StoreUpdate(s) ==
    /\ reqs[s].pc = "pending" /\ reqs[s].route = "PUT"
    /\ storeUp
    /\ LET out == updateOne(coll, Oid(ObjectId(reqs[s].id).hex), reqs[s].body)
       IN  coll' = out.c /\ Settle(s, out.result)
    /\ UNCHANGED <<notes, connState, attempts, storeUp, proc, rejectionMode, nextOid,
                   deletedIds>>

----------------------------------------------------------------------------
\* The route handlers, after their await

Resuming(s, route) ==
    /\ proc = "running"
    /\ reqs[s].pc = "settled"
    /\ reqs[s].route = route

\* Mutant: the catch block clears the handle after a failed query.
GetRespond_ClearsHandle(s) ==
    /\ Resuming(s, "GET")
    /\ reqs' = [reqs EXCEPT ![s] =
                  IF reqs[s].result.ok
                    THEN Send(@, 200, Items(reqs[s].result.items))
                    ELSE Send(@, 500, Text("An error occurred while retrieving notes."))]
    /\ notes' = IF reqs[s].result.ok THEN notes ELSE "undefined"
    /\ UNCHANGED <<connState, attempts, storeUp, proc, rejectionMode, coll,
                   nextOid, deletedIds>>

GetRespond(s) ==
    /\ Resuming(s, "GET")
    /\ reqs' = [reqs EXCEPT ![s] =
                  IF reqs[s].result.ok
                    THEN Send(@, 200, Items(reqs[s].result.items))
                    ELSE Send(@, 500, Text("An error occurred while retrieving notes."))]
    /\ UNCHANGED <<notes, connState, attempts, storeUp, proc, rejectionMode, coll,
                   nextOid, deletedIds>>

PostRespond(s) ==
    /\ Resuming(s, "POST")
    /\ reqs' = [reqs EXCEPT ![s] =
                  IF reqs[s].result.ok
                    THEN Send(@, 200, Text("Note added successfully."))
                    ELSE Send(@, 500, Text("An error occurred while adding a note."))]
    /\ UNCHANGED <<notes, connState, attempts, storeUp, proc, rejectionMode, coll,
                   nextOid, deletedIds>>

\* Mutant: {ok: true} is sent whenever deleteOne resolved, whatever its
\* deletedCount.
DeleteRespond_OkWhenResolved(s) ==
    /\ Resuming(s, "DELETE")
    /\ IF reqs[s].result.ok
         THEN /\ reqs' = [reqs EXCEPT ![s] = Send(@, 200, Json(TRUE))]
              /\ UNCHANGED proc
         ELSE UnhandledRejection(s, reqs[s])
    /\ UNCHANGED <<notes, connState, attempts, storeUp, rejectionMode, coll, nextOid,
                   deletedIds>>

DeleteRespond(s) ==
    /\ Resuming(s, "DELETE")
    /\ IF reqs[s].result.ok
         THEN /\ reqs' = [reqs EXCEPT ![s] = Send(@, 200, Json(reqs[s].result.n = 1))]
              /\ UNCHANGED proc
         ELSE UnhandledRejection(s, reqs[s])
    /\ UNCHANGED <<notes, connState, attempts, storeUp, rejectionMode, coll, nextOid,
                   deletedIds>>

\* Mutant: the catch block issues the update again.
PutRespond_Retries(s) ==
    /\ Resuming(s, "PUT")
    /\ reqs' = [reqs EXCEPT ![s] =
                  IF ~reqs[s].result.ok
                    THEN [@ EXCEPT !.pc = "pending"]
                    ELSE IF reqs[s].result.n = 1
                      THEN Send(@, 200, Text("Note updated successfully."))
                      ELSE Send(@, 404, Text("Note not found."))]
    /\ UNCHANGED <<notes, connState, attempts, storeUp, proc, rejectionMode, coll,
                   nextOid, deletedIds>>

PutRespond(s) ==
    /\ Resuming(s, "PUT")
    /\ reqs' = [reqs EXCEPT ![s] =
                  IF ~reqs[s].result.ok
                    THEN Send(@, 500, Text("An error occurred while updating the note."))
                    ELSE IF reqs[s].result.n = 1
                      THEN Send(@, 200, Text("Note updated successfully."))
                      ELSE Send(@, 404, Text("Note not found."))]
    /\ UNCHANGED <<notes, connState, attempts, storeUp, proc, rejectionMode, coll,
                   nextOid, deletedIds>>

----------------------------------------------------------------------------
Init ==
    /\ notes = "undefined"
    /\ connState = "init"
    /\ attempts = 0
    /\ storeUp \in BOOLEAN
    /\ proc = "running"
    /\ rejectionMode \in {"throw", "warn"}
    /\ coll = <<>>
    /\ nextOid = 1
    /\ deletedIds = {}
    /\ reqs = [s \in Slots |-> Idle]
    /\ log = <<>>

Next ==
    /\ \/ StartConnect
       \/ ConnectOk
       \/ ConnectFail
       \/ StoreGoesDown
       \/ StoreComesUp
       \/ \E s \in Slots, q \in Queries : AppGetNotes(s, q)
       \/ \E s \in Slots, b \in Bodies : AppPostNotes(s, b)
       \/ \E s \in Slots, id \in PathIds : AppDeleteNote(s, id)
       \/ \E s \in Slots, id \in PathIds, b \in Bodies : AppPutNote(s, id, b)
       \/ \E s \in Slots : StoreFail(s)
       \/ \E s \in Slots : StoreFind(s)
       \/ \E s \in Slots : StoreInsert(s)
       \/ \E s \in Slots : StoreDelete(s)
       \/ \E s \in Slots : StoreUpdate(s)
       \/ \E s \in Slots : GetRespond(s)
       \/ \E s \in Slots : PostRespond(s)
       \/ \E s \in Slots : DeleteRespond(s)
       \/ \E s \in Slots : PutRespond(s)
    /\ UNCHANGED log

Spec == Init /\ [][Next]_vars

----------------------------------------------------------------------------
\* Requests that overlap.  The process is connected, the store stays
\* reachable and the collection holds one Note; Delete and Update requests
\* arrive, each in a slot of its own, the next one while the ones before it
\* are in flight, and the store carries their operations out in any order.

ConcSlots == 1..(MaxInFlight + 1)

ConcNote == ("_id" :> Oid(toHexString(1))) @@ ("title" :> A) @@ ("content" :> B)

\* Two mappings that name different fields.
ConcBodies == { ("title" :> B), ("content" :> A) }

\* The Note's id, and a string that is no ObjectId.
ConcPathIds == { toHexString(1), <<"z", "z">> }

InitConc ==
    /\ notes = "collection"
    /\ connState = "connected"
    /\ attempts = 1
    /\ storeUp = TRUE
    /\ proc = "running"
    /\ rejectionMode \in {"throw", "warn"}
    /\ coll = <<ConcNote>>
    /\ nextOid = 2
    /\ deletedIds = {}
    /\ reqs = [s \in ConcSlots |-> Idle]
    /\ log = <<>>

\* The write operation of the handler in s, as the store carries it out.
LogEntry(s) ==
    [slot |-> s, route |-> reqs[s].route, id |-> Oid(ObjectId(reqs[s].id).hex),
     m |-> reqs[s].body, n |-> reqs'[s].result.n]

ConcDeleteNote(s, id) ==
    reqs[s].pc = "idle" /\ AppDeleteNote(s, id) /\ UNCHANGED log

ConcPutNote(s, id, b) ==
    reqs[s].pc = "idle" /\ AppPutNote(s, id, b) /\ UNCHANGED log

ConcStoreDelete(s) == StoreDelete(s) /\ log' = Append(log, LogEntry(s))

ConcStoreUpdate(s) == StoreUpdate(s) /\ log' = Append(log, LogEntry(s))

ConcDeleteRespond(s) == DeleteRespond(s) /\ UNCHANGED log

ConcPutRespond(s) == PutRespond(s) /\ UNCHANGED log

NextConc ==
    \/ \E s \in ConcSlots, id \in ConcPathIds : ConcDeleteNote(s, id)
    \/ \E s \in ConcSlots, id \in ConcPathIds, b \in ConcBodies : ConcPutNote(s, id, b)
    \/ \E s \in ConcSlots : ConcStoreDelete(s)
    \/ \E s \in ConcSlots : ConcStoreUpdate(s)
    \/ \E s \in ConcSlots : ConcDeleteRespond(s)
    \/ \E s \in ConcSlots : ConcPutRespond(s)

SpecConc == InitConc /\ [][NextConc]_vars

----------------------------------------------------------------------------
\* Steps, as the claims speak of them

\* A request arrives and its handler runs up to its await.
Arrives(s) == Free(s) /\ reqs'[s] # reqs[s]

\* The store carries out (does not fail) the operation of the handler in s.
Executes(s, route) ==
    /\ reqs[s].pc = "pending" /\ reqs[s].route = route
    /\ reqs'[s].pc = "settled"
    /\ storeUp

\* The handler in s resumes after its await.
Resumes(s, route) ==
    /\ reqs[s].pc = "settled" /\ reqs[s].route = route
    /\ reqs'[s] # reqs[s]

Answered(r, status, resp) == r.pc = "done" /\ r.status = status /\ r.resp = resp

\* The identifier a DELETE or PUT request in s addresses.
Target(s) == Oid(ObjectId(reqs[s].id).hex)

----------------------------------------------------------------------------
\* C1: while the handle notes is undefined, every request of the four routes
\* is answered with status 500 and the process keeps running.
C1_UnavailableAnswered500 ==
    notes = "undefined" =>
        /\ proc = "running"
        /\ \A s \in Slots : reqs[s].pc = "idle" \/
                            (reqs[s].pc = "done" /\ reqs[s].status = 500)

\* C2: whenever the store operation of a handler fails, that handler answers
\* with status 500 and a text body; no failure escapes the handler.
C2_StoreFailureCaught ==
    [][\A s \in Slots :
         (reqs[s].pc = "settled" /\ ~reqs[s].result.ok /\ reqs'[s] # reqs[s]) =>
            /\ reqs'[s].pc = "done"
            /\ reqs'[s].status = 500
            /\ reqs'[s].resp.kind = "text"
            /\ proc' = "running"]_vars

C4_DeletePresent ==
    [][\A s \in Slots :
         /\ (Executes(s, "DELETE") /\ Target(s) \in Ids(coll)) =>
               /\ coll' = SelectSeq(coll, LAMBDA d : d["_id"] # Target(s))
               /\ Len(coll') = Len(coll) - 1
               /\ reqs'[s].result = Done(1, <<>>)
         /\ (Resumes(s, "DELETE") /\ reqs[s].result = Done(1, <<>>)) =>
               Answered(reqs'[s], 200, Json(TRUE))
         /\ Executes(s, "GET") =>
               \A i \in DOMAIN reqs'[s].result.items :
                   reqs'[s].result.items[i]["_id"] \notin deletedIds]_vars

C4_Witness ==
    /\ deletedIds # {}
    /\ coll # <<>>
    /\ \E s \in Slots : reqs[s].route = "DELETE" /\ Answered(reqs[s], 200, Json(TRUE))

\* A List carried out after a deletion has returned the Notes that remain.
C4_WitnessList ==
    /\ deletedIds # {}
    /\ \E s \in Slots : /\ reqs[s].route = "GET" /\ reqs[s].pc = "done"
                        /\ reqs[s].status = 200 /\ reqs[s].resp.items # <<>>

\* What C5 says of an Update that the store carries out on a present id:
\* it succeeds, the named fields are set, the others and the other
\* documents are as they were.
UpdateTakesEffect(s) ==
    LET i == IndexOf(coll, Target(s))
        m == reqs[s].body
    IN  /\ reqs'[s].result = Done(1, <<>>)
        /\ Len(coll') = Len(coll)
        /\ \A j \in DOMAIN coll : j # i => coll'[j] = coll[j]
        /\ DOMAIN coll'[i] = DOMAIN coll[i] \cup DOMAIN m
        /\ \A f \in DOMAIN m : coll'[i][f] = m[f]
        /\ \A f \in DOMAIN coll[i] \ DOMAIN m : coll'[i][f] = coll[i][f]

UpdateAnswered(s) ==
    (Resumes(s, "PUT") /\ reqs[s].result = Done(1, <<>>)) =>
        Answered(reqs'[s], 200, Text("Note updated successfully."))

C6_UpdateAbsent ==
    [][\A s \in Slots :
         /\ (Executes(s, "PUT") /\ Target(s) \notin Ids(coll)) =>
               /\ coll' = coll
               /\ reqs'[s].result = Done(0, <<>>)
         /\ (Resumes(s, "PUT") /\ reqs[s].result = Done(0, <<>>)) =>
               Answered(reqs'[s], 404, Text("Note not found."))]_vars

C6_Witness ==
    /\ coll # <<>>
    /\ \E s \in Slots : /\ reqs[s].route = "PUT"
                        /\ Answered(reqs[s], 404, Text("Note not found."))

\* C7: a Create that succeeds appends one Note carrying every submitted
\* field with its value and changes no Note that was there, and a List with
\* no filter returns the whole collection.
C7_CreateThenList ==
    [][\A s \in Slots :
         /\ (Executes(s, "POST") /\ reqs'[s].result.ok) =>
               /\ Len(coll') = Len(coll) + 1
               /\ \A j \in DOMAIN coll : coll'[j] = coll[j]
               /\ \A f \in DOMAIN reqs[s].body :
                     /\ f \in DOMAIN coll'[Len(coll')]
                     /\ coll'[Len(coll')][f] = reqs[s].body[f]
         /\ (Resumes(s, "POST") /\ reqs[s].result.ok) =>
               Answered(reqs'[s], 200, Text("Note added successfully."))
         /\ (Executes(s, "GET") /\ reqs[s].query = <<>>) =>
               reqs'[s].result = Done(0, coll)
         /\ (Resumes(s, "GET") /\ reqs[s].result.ok) =>
               Answered(reqs'[s], 200, Items(reqs[s].result.items))]_vars

\* A List has returned two Notes, one of them with the title and the content
\* a Create submitted.
C7_Witness ==
    \E s \in Slots :
        /\ reqs[s].route = "GET" /\ reqs[s].pc = "done" /\ reqs[s].status = 200
        /\ Len(reqs[s].resp.items) = 2
        /\ \E i \in DOMAIN reqs[s].resp.items :
              LET d == reqs[s].resp.items[i]
              IN  /\ DOMAIN d = {"_id", "title", "content"}
                  /\ d["title"] = A /\ d["content"] = B

\* A document equals every key/value pair of a filter mapping.
EqualsEveryPair(doc, filter) ==
    \A k \in DOMAIN filter :
        /\ filter[k].t = "str"
        /\ k \in DOMAIN doc
        /\ doc[k] = Str(filter[k].v)

\* C8: for every filter mapping taken from the query parameters, List
\* returns exactly the stored Notes whose fields equal every key/value pair
\* of the filter, and no other operator is applied.
C8_ListEqualityFilter ==
    [][\A s \in Slots :
         Executes(s, "GET") =>
            reqs'[s].result.items =
               SelectSeq(coll, LAMBDA d : EqualsEveryPair(d, ParseQuery(reqs[s].query)))]_vars

\* C9: every Note in the collection has one identifier, unique in the
\* collection, assigned by the store at insertion, and not the identifier
\* of a Note deleted earlier; no Update changes an identifier.
C9_StoreAssignedIds ==
    /\ [](\A i \in DOMAIN coll :
             /\ "_id" \in DOMAIN coll[i]
             /\ coll[i]["_id"].t = "oid"
             /\ \E n \in 1..(nextOid - 1) : coll[i]["_id"].v = toHexString(n)
             /\ coll[i]["_id"] \notin deletedIds
             /\ \A j \in DOMAIN coll : coll[i]["_id"] = coll[j]["_id"] => i = j)
    /\ [][\A s \in Slots :
            Executes(s, "PUT") =>
               /\ Len(coll') = Len(coll)
               /\ \A i \in DOMAIN coll : coll'[i]["_id"] = coll[i]["_id"]]_vars

\* C10: once the startup connection attempt has failed the handle stays
\* undefined, no second connection attempt is made, and every later request
\* fails (500, or no answer), also when the store is reachable again.
C10_NoReconnect ==
    [][/\ attempts' <= 1
       /\ connState' = "failed" => notes' = "undefined"
       /\ connState = "failed" =>
             /\ connState' = "failed"
             /\ attempts' = attempts
             /\ \A s \in Slots :
                   Arrives(s) => \/ reqs'[s].pc = "hung"
                                 \/ reqs'[s].pc = "done" /\ reqs'[s].status = 500]_vars

C10_Witness ==
    /\ connState = "failed"
    /\ storeUp
    /\ \E s \in Slots : reqs[s].pc = "done" /\ reqs[s].status = 500

----------------------------------------------------------------------------
\* C11: the handle notes is written at most once, by the connection routine
\* as its connect resolves; no step of a route handler, on a success or an
\* error path, assigns or clears it.
C11_HandleWrittenOnce ==
    [][notes' # notes =>
          /\ notes = "undefined" /\ notes' = "collection"
          /\ connState = "connecting" /\ connState' = "connected"
          /\ reqs' = reqs]_vars

\* The handle is bound and a handler has gone through its error path.
C11_Witness ==
    /\ notes = "collection"
    /\ coll # <<>>
    /\ \E s \in Slots : reqs[s].pc = "done" /\ reqs[s].status = 500

\* C14: a request issues at most one store operation: an operation is
\* issued only as the request arrives, and once it has settled, failed or
\* not, the handler answers (or ends) without issuing another.
C14_OneStoreOperation ==
    [][\A s \in Slots :
         /\ (reqs'[s].pc = "pending" /\ reqs'[s] # reqs[s]) => Free(s)
         /\ reqs[s].pc = "pending" => reqs'[s].pc \in {"pending", "settled"}
         /\ reqs[s].pc = "settled" => reqs'[s].pc \in {"settled", "done", "hung"}
         /\ reqs[s].pc = "hung" => reqs'[s].pc = "hung"]_vars

\* A Create has been answered 500 after a Note was stored: its insertOne
\* failed and was not issued again.
C14_Witness ==
    /\ coll # <<>>
    /\ \E s \in Slots : /\ reqs[s].route = "POST"
                        /\ Answered(reqs[s], 500, Text("An error occurred while adding a note."))

\* C16: every request gets exactly one response, also when the handle is
\* unavailable or the path id is malformed: no handler ends without having
\* sent one.
C16_EveryRequestAnswered ==
    \A s \in DOMAIN reqs : reqs[s].pc # "hung"

----------------------------------------------------------------------------
\* Overlapping requests (SpecConc)

Malformed(id) == ~ObjectId(id).ok

\* C12: a Delete or an Update whose path id is no ObjectId fails before any
\* store operation is issued: the collection and the store's history are
\* unchanged, the request is never pending on the store, no success response
\* is sent, and the Update is answered 500.
C12_MalformedIdFailsEarly ==
    [][\A s \in DOMAIN reqs :
         /\ \A id \in ConcPathIds : Malformed(id) =>
              /\ AppDeleteNote(s, id) =>
                   /\ reqs'[s].pc = "hung" /\ reqs'[s].status # 200
                   /\ coll' = coll /\ log' = log
              /\ \A b \in ConcBodies : AppPutNote(s, id, b) =>
                   /\ Answered(reqs'[s], 500,
                               Text("An error occurred while updating the note."))
                   /\ coll' = coll /\ log' = log
         /\ reqs'[s].pc = "pending" => ~Malformed(reqs'[s].id)]_vars

\* A Delete and an Update have both come with a malformed id: the Delete
\* ended without a response, the Update was answered 500, the Note is as it
\* was.
C12_Witness ==
    /\ coll = <<ConcNote>>
    /\ log = <<>>
    /\ \E s, t \in DOMAIN reqs :
         /\ reqs[s].route = "DELETE" /\ reqs[s].pc = "hung"
         /\ Answered(reqs[t], 500, Text("An error occurred while updating the note."))

\* One write applied to a collection, on its own.
ApplyOne(c, e) ==
    IF e.route = "DELETE"
      THEN SelectSeq(c, LAMBDA d : d["_id"] # e.id)
      ELSE [i \in DOMAIN c |-> IF c[i]["_id"] = e.id THEN e.m @@ c[i] ELSE c[i]]

RECURSIVE Replay(_, _)
Replay(c, l) == IF l = <<>> THEN c ELSE Replay(ApplyOne(c, Head(l)), Tail(l))

Prefix(i) == SubSeq(log, 1, i - 1)

\* No write after entry i removes the Note of entry i or sets its field f.
Keeps(i, f) ==
    \A k \in DOMAIN log : (k > i /\ log[k].id = log[i].id) =>
        /\ log[k].route = "PUT"
        /\ f \notin DOMAIN log[k].m

\* C13: writes of overlapping requests to one id take effect one at a time,
\* in some order: the collection is what applying them one after the other
\* gives, each Update matches exactly when its Note is there at its turn, and
\* of two Updates of one Note that name different fields both show in it.
C13_WritesSerialized ==
    /\ coll = Replay(<<ConcNote>>, log)
    /\ \A i \in DOMAIN log : log[i].route = "PUT" =>
         (log[i].n = 1 <=> log[i].id \in Ids(Replay(<<ConcNote>>, Prefix(i))))
    /\ \A i, j \in DOMAIN log :
         ( /\ i # j
           /\ log[i].route = "PUT" /\ log[j].route = "PUT"
           /\ log[i].id = log[j].id
           /\ log[i].n = 1 /\ log[j].n = 1
           /\ DOMAIN log[i].m \cap DOMAIN log[j].m = {} )
         => \A f \in DOMAIN log[i].m : Keeps(i, f) =>
              \E x \in DOMAIN coll :
                  coll[x]["_id"] = log[i].id /\ coll[x][f] = log[i].m[f]

\* Two Updates of the one Note, naming different fields, are in flight
\* together and the store has carried out both.
C13_Witness ==
    /\ Len(log) = 2
    /\ \E s, t \in DOMAIN reqs :
         /\ s # t
         /\ reqs[s].pc = "settled" /\ reqs[s].route = "PUT" /\ reqs[s].result.n = 1
         /\ reqs[t].pc = "settled" /\ reqs[t].route = "PUT" /\ reqs[t].result.n = 1
    /\ coll = << ("_id" :> ConcNote["_id"]) @@ ("title" :> B) @@ ("content" :> A) >>

\* The Deletes of the Note that the store has carried out.
Deletes == { i \in DOMAIN log : log[i].route = "DELETE" /\ log[i].id = ConcNote["_id"] }

\* C15: of the overlapping Deletes of one Note that is there, exactly one
\* removes it and is answered {ok: true}; every other one is answered
\* {ok: false}; the Note is removed once.
C15_OneDeleteWins ==
    /\ \A i \in Deletes :
         /\ log[i].n = (IF ConcNote["_id"] \in Ids(Replay(<<ConcNote>>, Prefix(i))) THEN 1 ELSE 0)
         /\ reqs[log[i].slot].pc = "done" =>
              Answered(reqs[log[i].slot], 200, Json(log[i].n = 1))
    /\ Deletes # {} =>
         /\ Cardinality({ i \in Deletes : log[i].n = 1 }) = 1
         /\ ConcNote["_id"] \notin Ids(coll)
    /\ Cardinality({ s \in DOMAIN reqs :
                       reqs[s].route = "DELETE" /\ Answered(reqs[s], 200, Json(TRUE)) }) <= 1

\* Two Deletes of the Note were in flight together and both are answered:
\* one {ok: true}, one {ok: false}.
C15_Witness ==
    /\ coll = <<>>
    /\ Cardinality(Deletes) = 2
    /\ \E s, t \in DOMAIN reqs :
         /\ reqs[s].route = "DELETE" /\ Answered(reqs[s], 200, Json(TRUE))
         /\ reqs[t].route = "DELETE" /\ Answered(reqs[t], 200, Json(FALSE))

====
